---- MODULE Spec2Model ----
(***************************************************************************)
(* Priority scoring engine of src/app.py: the six factor calculators, the  *)
(* weighted aggregator, and the request handlers that score and rank a     *)
(* board snapshot.                                                         *)
(*                                                                         *)
(* Units.  Time is counted in minutes; "now" is the clock value the        *)
(* request reads.  Factor values are the integers the calculators return.  *)
(* A priority score is kept in tenths (725 is 72.5), which is exactly the  *)
(* precision round(x, 1) leaves; the weighted sum is kept in hundredths.   *)
(***************************************************************************)
EXTENDS Integers, Sequences, FiniteSets, TLC

VARIABLES cards, tasks, pc, idx, pass, first, unsorted, endpoint, now, response, request

vars == <<cards, tasks, pc, idx, pass, first, unsorted, endpoint, now, response, request>>

\* cards     what get_trello_cards returned: the board's cards, <<>> when the
\*           fetch failed (or the board is empty)
\* tasks     the handler's task list (normalized, then scored, then sorted in place)
\* pc, idx   the handler's position and the index of its scoring loop
\* pass      how many times the scoring loop has been started on `tasks`
\* first     history: `tasks` as the first scoring pass left it
\* unsorted  history: `tasks` as it stood just before the sort
\* endpoint  the handler that is running
\* now       the clock the calculators read
\* response  what the handler returns
\* request   the JSON body of a POST /api/analyze request

(***************************************************************************)
(* Bounds of the explored inputs.                                          *)
(***************************************************************************)
\* cards on a board of mixed cards
MaxTasks == 2
\* cards on a board of cards that mention one another
MaxDepTasks == 4
\* cards on a board of cards that are due soon (more than today_tasks[:10] keeps)
MaxFocusTasks == 11
\* cards on a board whose tasks are scored in any order
MaxOrderTasks == 3
\* cards on a board that holds cards without a title
MaxUntitledTasks == 3

(***************************************************************************)
(* Python string primitives.                                               *)
(***************************************************************************)
\* str.lower on one character: the ASCII capitals map to their small letters
Lowered ==
    ("A" :> "a") @@ ("B" :> "b") @@ ("C" :> "c") @@ ("D" :> "d") @@ ("E" :> "e") @@ ("F" :> "f")
    @@ ("G" :> "g") @@ ("H" :> "h") @@ ("I" :> "i") @@ ("J" :> "j") @@ ("K" :> "k") @@ ("L" :> "l")
    @@ ("M" :> "m") @@ ("N" :> "n") @@ ("O" :> "o") @@ ("P" :> "p") @@ ("Q" :> "q") @@ ("R" :> "r")
    @@ ("S" :> "s") @@ ("T" :> "t") @@ ("U" :> "u") @@ ("V" :> "v") @@ ("W" :> "w") @@ ("X" :> "x")
    @@ ("Y" :> "y") @@ ("Z" :> "z")

LowerChar(c) == IF c \in DOMAIN Lowered THEN Lowered[c] ELSE c

RECURSIVE lower(_)
lower(s) ==
    IF Len(s) = 0 THEN ""
    ELSE IF Len(s) = 1 THEN LowerChar(s)
    ELSE LET h == Len(s) \div 2
         IN  lower(SubSeq(s, 1, h)) \o lower(SubSeq(s, h + 1, Len(s)))

\* Python's `k in s` on strings
In(k, s) == \E i \in 1..(Len(s) - Len(k) + 1) : SubSeq(s, i, i + Len(k) - 1) = k

\* Python's s[:n]
Prefix(s, n) == SubSeq(s, 1, IF Len(s) < n THEN Len(s) ELSE n)

\* Python's any(k in a or k in b for k in keywords)
AnyKeyword(keywords, a, b) == \E k \in keywords : In(k, a) \/ In(k, b)

\* [l.lower() for l in labels], as the set the membership tests see
LowerLabels(labels) == { lower(labels[i]) : i \in 1..Len(labels) }

Min(a, b) == IF a < b THEN a ELSE b
Max(a, b) == IF a > b THEN a ELSE b

(***************************************************************************)
(* Timestamps.  A timestamp field of a card is absent, an unparseable      *)
(* string, or an ISO string that datetime.fromisoformat turns into an      *)
(* instant.                                                                *)
(***************************************************************************)
Hour == 60
Day == 24 * Hour

NoStamp == [kind |-> "none", at |-> 0]
BadStamp == [kind |-> "bad", at |-> 0]
At(m) == [kind |-> "iso", at |-> m]

\* `not deadline`
Missing(stamp) == stamp.kind = "none"
\* datetime.fromisoformat raises
Unparseable(stamp) == stamp.kind = "bad"

(***************************************************************************)
(* Factor calculators.                                                     *)
(***************************************************************************)
\* variant: the 3-day overdue edge and the 6-hour edge are taken on the wrong side
calculate_urgency_edges(task) ==
    IF Missing(task.deadline) THEN 15
    ELSE IF Unparseable(task.deadline) THEN 25
    ELSE LET until == task.deadline.at - now
             overdue == 0 - until
         IN  IF until < 0
             THEN IF overdue > 7 * Day THEN 100
                  ELSE IF overdue >= 3 * Day THEN 95
                  ELSE 90
             ELSE IF until <= 6 * Hour THEN 95
             ELSE IF until < 24 * Hour THEN 85
             ELSE IF until <= 2 * Day THEN 75
             ELSE IF until <= 4 * Day THEN 60
             ELSE IF until <= 7 * Day THEN 45
             ELSE IF until <= 14 * Day THEN 30
             ELSE 20

\* variant: the two-week window is missing
calculate_urgency_no_fortnight(task) ==
    IF Missing(task.deadline) THEN 15
    ELSE IF Unparseable(task.deadline) THEN 25
    ELSE LET until == task.deadline.at - now
             overdue == 0 - until
         IN  IF until < 0
             THEN IF overdue > 7 * Day THEN 100
                  ELSE IF overdue > 3 * Day THEN 95
                  ELSE 90
             ELSE IF until < 6 * Hour THEN 95
             ELSE IF until < 24 * Hour THEN 85
             ELSE IF until <= 2 * Day THEN 75
             ELSE IF until <= 4 * Day THEN 60
             ELSE IF until <= 7 * Day THEN 45
             ELSE 20

calculate_urgency(task) ==
    IF Missing(task.deadline) THEN 15
    ELSE IF Unparseable(task.deadline) THEN 25
    ELSE LET until == task.deadline.at - now     \* minutes until the deadline
             overdue == 0 - until
         IN  IF until < 0
             THEN IF overdue > 7 * Day THEN 100
                  ELSE IF overdue > 3 * Day THEN 95
                  ELSE 90
             ELSE IF until < 6 * Hour THEN 95
             ELSE IF until < 24 * Hour THEN 85
             ELSE IF until <= 2 * Day THEN 75
             ELSE IF until <= 4 * Day THEN 60
             ELSE IF until <= 7 * Day THEN 45
             ELSE IF until <= 14 * Day THEN 30
             ELSE 20

CriticalLabels == {"critical", "blocker", "emergency", "urgent"}
HighLabels == {"high", "important", "high priority"}
BugKeywords == {"bug", "error", "crash", "broken", "fix"}
BusinessKeywords == {"user-facing", "revenue", "customer", "production"}
SecurityKeywords == {"security", "vulnerability", "compliance", "audit"}
LowLabels == {"low", "nice to have", "enhancement", "future"}

\* variant: the low-priority label rule is tested first
calculate_strategic_value_low_first(task) ==
    LET labels == LowerLabels(task.labels)
        title == lower(task.title)
        description == lower(task.description)
    IN  IF LowLabels \cap labels # {} THEN 25
        ELSE IF CriticalLabels \cap labels # {} THEN 95
        ELSE IF HighLabels \cap labels # {} THEN 80
        ELSE IF AnyKeyword(BugKeywords, title, description) THEN 75
        ELSE IF AnyKeyword(BusinessKeywords, title, description) THEN 70
        ELSE IF AnyKeyword(SecurityKeywords, title, description) THEN 85
        ELSE 50

calculate_strategic_value(task) ==
    LET labels == LowerLabels(task.labels)
        title == lower(task.title)
        description == lower(task.description)
    IN  IF CriticalLabels \cap labels # {} THEN 95
        ELSE IF HighLabels \cap labels # {} THEN 80
        ELSE IF AnyKeyword(BugKeywords, title, description) THEN 75
        ELSE IF AnyKeyword(BusinessKeywords, title, description) THEN 70
        ELSE IF AnyKeyword(SecurityKeywords, title, description) THEN 85
        ELSE IF LowLabels \cap labels # {} THEN 25
        ELSE 50

\* variant: the loop does not skip the task itself
blocked_count_self(task, all_tasks) ==
    LET title == lower(task.title)
    IN  Cardinality({ j \in 1..Len(all_tasks) :
            LET other_desc == lower(all_tasks[j].description)
                other_title == lower(all_tasks[j].title)
            IN  \/ In(task.id, other_desc)
                \/ In(Prefix(title, 20), other_desc)
                \/ In(Prefix(title, 20), other_title) })

\* variant: a task without a title is looked for by its id only
blocked_count_titled(task, all_tasks) ==
    LET title == lower(task.title)
    IN  Cardinality({ j \in 1..Len(all_tasks) :
            /\ all_tasks[j].id # task.id
            /\ LET other_desc == lower(all_tasks[j].description)
                   other_title == lower(all_tasks[j].title)
               IN  \/ In(task.id, other_desc)
                   \/ title # "" /\ In(Prefix(title, 20), other_desc)
                   \/ title # "" /\ In(Prefix(title, 20), other_title) })

\* the loop of lines 240-247: how many tasks with another id mention this one
blocked_count(task, all_tasks) ==
    LET title == lower(task.title)
    IN  Cardinality({ j \in 1..Len(all_tasks) :
            /\ all_tasks[j].id # task.id
            /\ LET other_desc == lower(all_tasks[j].description)
                   other_title == lower(all_tasks[j].title)
               IN  \/ In(task.id, other_desc)
                   \/ In(Prefix(title, 20), other_desc)
                   \/ In(Prefix(title, 20), other_title) })

\* variant: the result is not clamped
calculate_dependency_score_unclamped(task, all_tasks) ==
    LET desc == lower(task.description)
        title == lower(task.title)
        s1 == 20 + (IF In("blocker", desc) \/ In("blocking", title) \/ In("blocks", desc)
                    THEN 50 ELSE 0)
        s2 == s1 + Min(blocked_count(task, all_tasks) * 20, 40)
        s3 == s2 - (IF In("blocked by", desc) \/ In("waiting for", desc) \/ In("depends on", desc)
                    THEN 30 ELSE 0)
    IN  s3

calculate_dependency_score(task, all_tasks) ==
    LET desc == lower(task.description)
        title == lower(task.title)
        s1 == 20 + (IF In("blocker", desc) \/ In("blocking", title) \/ In("blocks", desc)
                    THEN 50 ELSE 0)
        s2 == s1 + Min(blocked_count(task, all_tasks) * 20, 40)
        s3 == s2 - (IF In("blocked by", desc) \/ In("waiting for", desc) \/ In("depends on", desc)
                    THEN 30 ELSE 0)
    IN  Min(Max(s3, 0), 100)

QuickWinKeywords ==
    {"typo", "rename", "update text", "copy change", "wording",
     "small fix", "quick", "simple", "minor"}
ComplexKeywords ==
    {"refactor", "rebuild", "redesign", "architecture",
     "migration", "infrastructure", "integration"}

\* variant: the checklist rule is tested before the keyword rules
calculate_effort_impact_checklist_first(task) ==
    LET title == lower(task.title)
        desc == lower(task.description)
        checklist_items == task.total_checklist_items
        desc_length == Len(desc)
    IN  IF checklist_items > 10 THEN 30
        ELSE IF checklist_items > 5 THEN 45
        ELSE IF checklist_items > 0 THEN 65
        ELSE IF AnyKeyword(QuickWinKeywords, title, desc) THEN 90
        ELSE IF AnyKeyword(ComplexKeywords, title, desc) THEN 35
        ELSE IF desc_length > 1000 THEN 40
        ELSE IF desc_length > 500 THEN 55
        ELSE IF desc_length > 100 THEN 70
        ELSE IF desc_length > 0 THEN 75
        ELSE 60

calculate_effort_impact(task) ==
    LET title == lower(task.title)
        desc == lower(task.description)
        checklist_items == task.total_checklist_items
        desc_length == Len(desc)
    IN  IF AnyKeyword(QuickWinKeywords, title, desc) THEN 90
        ELSE IF AnyKeyword(ComplexKeywords, title, desc) THEN 35
        ELSE IF checklist_items > 10 THEN 30
        ELSE IF checklist_items > 5 THEN 45
        ELSE IF checklist_items > 0 THEN 65
        ELSE IF desc_length > 1000 THEN 40
        ELSE IF desc_length > 500 THEN 55
        ELSE IF desc_length > 100 THEN 70
        ELSE IF desc_length > 0 THEN 75
        ELSE 60

InProgressStatuses == {"In Progress", "In Review", "Testing"}

calculate_staleness(task) ==
    IF task.status \notin InProgressStatuses THEN 20
    ELSE IF Missing(task.dateLastActivity) THEN 50
    ELSE IF Unparseable(task.dateLastActivity) THEN 40
    ELSE LET days_stale == (now - task.dateLastActivity.at) \div Day   \* timedelta.days
         IN  IF days_stale > 14 THEN 95
             ELSE IF days_stale > 7 THEN 85
             ELSE IF days_stale > 4 THEN 70
             ELSE IF days_stale > 2 THEN 50
             ELSE 25

calculate_team_capacity(task) ==
    LET num_assignees == Len(task.assignee)
    IN  IF num_assignees = 0 THEN 40
        ELSE IF num_assignees = 1 THEN 75
        ELSE IF num_assignees = 2 THEN 85
        ELSE 70

calculate_activity_engagement(task) ==
    LET comment_count == task.comment_count
        activity_count == task.activity_count
    IN  IF comment_count > 10 \/ activity_count > 20 THEN 80
        ELSE IF comment_count > 5 \/ activity_count > 10 THEN 65
        ELSE IF comment_count > 2 \/ activity_count > 5 THEN 50
        ELSE IF comment_count > 0 \/ activity_count > 0 THEN 40
        ELSE 30

(***************************************************************************)
(* Aggregator.                                                             *)
(***************************************************************************)
\* Python's round(x, 1) of a value given in hundredths, result in tenths:
\* nearest tenth, a tie (x.x5, exact in binary for these sums) going to the
\* even tenth.
round1(h) ==
    LET q == h \div 10
        r == h % 10
    IN  IF r < 5 THEN q
        ELSE IF r > 5 THEN q + 1
        ELSE IF q % 2 = 0 THEN q ELSE q + 1

\* variant: the dependency factor looks only at the tasks that carry no score yet
priority_breakdown_unscored_only(task, all_tasks) ==
    [urgency |-> calculate_urgency(task),
     strategic_value |-> calculate_strategic_value(task),
     dependency_impact |->
        calculate_dependency_score(task, SelectSeq(all_tasks, LAMBDA t : t.priority_score < 0)),
     effort_vs_impact |-> calculate_effort_impact(task),
     staleness |-> calculate_staleness(task),
     engagement |-> calculate_activity_engagement(task)]

\* lines 387-402: the six factors, as stored in task['priority_breakdown']
\* (round(v, 1) of an integer v is v)
priority_breakdown(task, all_tasks) ==
    [urgency |-> calculate_urgency(task),
     strategic_value |-> calculate_strategic_value(task),
     dependency_impact |-> calculate_dependency_score(task, all_tasks),
     effort_vs_impact |-> calculate_effort_impact(task),
     staleness |-> calculate_staleness(task),
     engagement |-> calculate_activity_engagement(task)]

\* variant: engagement enters the sum with weight 0.10
weighted_sum_heavy(b) ==
    b.urgency * 30 + b.strategic_value * 25 + b.dependency_impact * 20
    + b.effort_vs_impact * 10 + b.staleness * 10 + b.engagement * 10

\* lines 405-412: the weighted sum, in hundredths
weighted_sum(b) ==
    b.urgency * 30 + b.strategic_value * 25 + b.dependency_impact * 20
    + b.effort_vs_impact * 10 + b.staleness * 10 + b.engagement * 5

\* variant: team capacity enters the sum with the engagement weight
calculate_priority_score_capacity(task, all_tasks) ==
    LET b == priority_breakdown(task, all_tasks)
    IN  [priority_breakdown |-> b,
         priority_score |->
            round1(Min(10000, Max(0, weighted_sum(b) + calculate_team_capacity(task) * 5)))]

\* variant: a score already on the task is carried into the new one
calculate_priority_score_carry(task, all_tasks) ==
    LET b == priority_breakdown(task, all_tasks)
        carried == IF task.priority_score < 0 THEN 0 ELSE task.priority_score
    IN  [priority_breakdown |-> b,
         priority_score |-> round1(Min(10000, Max(0, weighted_sum(b) + carried)))]

\* The function's two effects: the breakdown it stores on the task and the
\* score it returns (the weighted sum clamped to [0, 100], rounded to tenths).
calculate_priority_score(task, all_tasks) ==
    LET b == priority_breakdown(task, all_tasks)
    IN  [priority_breakdown |-> b,
         priority_score |-> round1(Min(10000, Max(0, weighted_sum(b))))]

(***************************************************************************)
(* The board: the cards a fetch returns, and the lists they sit in.        *)
(***************************************************************************)
BoardLists ==
    [l \in {"l1", "l2", "l3", "l4", "l5"} |->
        CASE l = "l1" -> "To Do" [] l = "l2" -> "In Progress"
          [] l = "l3" -> "In Review" [] l = "l4" -> "Done" [] OTHER -> "Testing"]

\* card ids are unique on a board; position p of the snapshot carries CardIds[p]
CardIds ==
    <<"5f1c01", "5f1c02", "5f1c03", "5f1c04", "5f1c05", "5f1c06", "5f1c07",
      "5f1c08", "5f1c09", "5f1c0a", "5f1c0b", "5f1c0c", "5f1c0d">>

Card(name, desc, labels, due, idList, idMembers, dateLastActivity, checkItems, comments, updates) ==
    [name |-> name, desc |-> desc, labels |-> labels, due |-> due, idList |-> idList,
     idMembers |-> idMembers, dateLastActivity |-> dateLastActivity,
     checkItems |-> checkItems, comments |-> comments, updates |-> updates]

Plain == Card("Plan offsite", "", <<>>, NoStamp, "l1", <<>>, NoStamp, 0, 0, 0)

RECURSIVE Filler(_)
Filler(n) ==
    IF n = 0 THEN ""
    ELSE LET h == Filler(n \div 2)
         IN  IF n % 2 = 0 THEN h \o h ELSE h \o h \o "z"

\* deadlines on and around every window edge of calculate_urgency
DeadlinePool ==
    {NoStamp, BadStamp} \cup
    { At(m) : m \in {0 - 10 * Day, 0 - 7 * Day - 1, 0 - 7 * Day, 0 - 3 * Day - 1,
                     0 - 3 * Day, 0 - 1, 0, 3 * Hour, 6 * Hour - 1, 6 * Hour,
                     24 * Hour - 1, 24 * Hour, 2 * Day, 2 * Day + 1, 4 * Day,
                     4 * Day + 1, 7 * Day, 7 * Day + 1, 10 * Day, 14 * Day,
                     14 * Day + 1} }

UrgencyCards == { [Plain EXCEPT !.due = d] : d \in DeadlinePool }

LabelPool ==
    {<<>>, <<"critical", "low">>, <<"Low", "URGENT">>, <<"High">>, <<"low">>,
     <<"Enhancement", "important">>}
StrategicNames == {"Plan offsite", "Fix security bug", "Security audit", "Revenue dashboard"}
StrategicDescs == {"", "App crash on login", "Vulnerability in production"}

StrategicCards ==
    { [Plain EXCEPT !.name = n, !.desc = d, !.labels = l] :
        n \in StrategicNames, d \in StrategicDescs, l \in LabelPool }

EffortNames ==
    {"Plan offsite", "Fix typo in header", "Refactor auth module",
     "Quick Migration of the architecture"}
ShortDescs == {"", "brief note", "Minor wording change", "Full redesign"}
LongDescs == {Filler(100), Filler(101), Filler(500), Filler(501), Filler(1000), Filler(1001)}
ChecklistPool == {0, 1, 5, 6, 10, 11}

EffortCards ==
    { [Plain EXCEPT !.name = n, !.desc = d, !.checkItems = c] :
        n \in EffortNames, d \in ShortDescs, c \in ChecklistPool }
    \cup { [Plain EXCEPT !.name = n, !.desc = d, !.checkItems = c] :
        n \in {"Plan offsite", "Fix typo in header"}, d \in LongDescs, c \in {0, 11} }

\* last-activity stamps on and around every edge of calculate_staleness
ActivityPool ==
    {NoStamp, BadStamp} \cup
    { At(m) : m \in {0 - 15 * Day, 1 - 15 * Day, 0 - 8 * Day, 1 - 8 * Day, 0 - 5 * Day,
                     1 - 5 * Day, 0 - 3 * Day, 1 - 3 * Day, 0, Day} }

\* <<comments, other actions>> on and around every edge of calculate_activity_engagement
EngagementPool ==
    {<<0, 0>>, <<1, 0>>, <<0, 1>>, <<2, 3>>, <<3, 0>>, <<0, 6>>, <<5, 5>>, <<6, 0>>,
     <<0, 11>>, <<10, 10>>, <<11, 0>>, <<0, 21>>}

ActivityCards ==
    { [Plain EXCEPT !.idList = l, !.dateLastActivity = a] :
        l \in {"l1", "l2", "l4"}, a \in ActivityPool }
    \cup { [Plain EXCEPT !.comments = e[1], !.updates = e[2]] : e \in EngagementPool }

\* cards that mention one another by id or by title, with and without
\* blocker and blocked-by language
DependencyCards ==
    { [Plain EXCEPT !.name = "Deploy API gateway to staging cluster"],
      [Plain EXCEPT !.name = "Write docs",
                    !.desc = "Blocker: after deploy api gateway to production; needs 5F1C01"],
      [Plain EXCEPT !.name = "This blocks QA", !.desc = "Blocking work; Depends on 5f1c02"] }

\* cards that differ in every factor, two of them in the assignees only
MixedCards ==
    { Plain,
      [Plain EXCEPT !.idMembers = <<"m1">>],
      [Plain EXCEPT !.labels = <<"critical">>, !.due = At(0 - 10 * Day), !.idList = "l2",
                    !.desc = "blocker; quick", !.dateLastActivity = At(0 - 15 * Day),
                    !.comments = 11, !.updates = 10],
      [Plain EXCEPT !.labels = <<"low">>, !.checkItems = 11, !.idList = "l4",
                    !.desc = "simple", !.idMembers = <<"m1", "m2", "m3">>],
      [Plain EXCEPT !.name = "Fix typo in header", !.due = At(3 * Hour), !.idMembers = <<"m2">>],
      [Plain EXCEPT !.idList = "l3", !.dateLastActivity = At(0 - 8 * Day), !.comments = 3,
                    !.idMembers = <<"m2", "m1">>] }

\* a card without a title and a card that nothing mentions
UntitledCards == { [Plain EXCEPT !.name = ""], [Plain EXCEPT !.name = "Write docs"] }

\* today_tasks[:10]
FocusLimit == 10

\* cards due within two days, of three different urgencies
FocusCycle ==
    << [Plain EXCEPT !.due = At(30 * Hour)],
       [Plain EXCEPT !.due = At(12 * Hour)],
       [Plain EXCEPT !.due = At(3 * Hour)] >>

\* boards of FocusLimit and more cards, the cards of FocusCycle in rotation
FocusSnapshots ==
    { [p \in 1..n |-> [id |-> CardIds[p]] @@ FocusCycle[((p + k) % Len(FocusCycle)) + 1]] :
        n \in FocusLimit..MaxFocusTasks, k \in 1..Len(FocusCycle) }

\* a snapshot: 1..maxlen cards of a family, ids given by position
Snapshots(family, maxlen) ==
    UNION { { [p \in 1..n |-> [id |-> CardIds[p]] @@ f[p]] : f \in [1..n -> family] } : n \in 1..maxlen }

(***************************************************************************)
(* normalize_tasks: card -> task record.                                   *)
(***************************************************************************)
NoBreakdown ==
    [urgency |-> 0 - 1, strategic_value |-> 0 - 1, dependency_impact |-> 0 - 1,
     effort_vs_impact |-> 0 - 1, staleness |-> 0 - 1, engagement |-> 0 - 1]

\* the keys 'priority_score' and 'priority_breakdown' do not exist yet:
\* modelled as a negative score and NoBreakdown
normalize_task(card) ==
    [id |-> card.id,
     title |-> card.name,
     description |-> card.desc,
     status |-> IF card.idList \in DOMAIN BoardLists THEN BoardLists[card.idList] ELSE "unknown",
     assignee |-> card.idMembers,
     deadline |-> card.due,
     labels |-> card.labels,
     dateLastActivity |-> card.dateLastActivity,
     total_checklist_items |-> card.checkItems,
     comment_count |-> card.comments,
     activity_count |-> card.comments + card.updates,
     priority_score |-> 0 - 1,
     priority_breakdown |-> NoBreakdown]

normalize_tasks(trello_cards) == [p \in 1..Len(trello_cards) |-> normalize_task(trello_cards[p])]

(***************************************************************************)
(* list.sort(key=..., reverse=True): a stable sort, largest key first.     *)
(* sorted_order gives, for the keys of a list, the positions of the list   *)
(* in sorted order; each element is inserted behind the elements that are  *)
(* not smaller, so equal keys keep their order.                            *)
(***************************************************************************)
\* variant: an element is inserted in front of the elements equal to it
RECURSIVE sorted_order_unstable(_)
sorted_order_unstable(keys) ==
    IF Len(keys) = 0 THEN <<>>
    ELSE LET n == Len(keys)
             rest == sorted_order_unstable(SubSeq(keys, 1, n - 1))
             pos == Cardinality({ q \in 1..Len(rest) : keys[rest[q]] > keys[n] })
         IN  SubSeq(rest, 1, pos) \o <<n>> \o SubSeq(rest, pos + 1, Len(rest))

RECURSIVE sorted_order(_)
sorted_order(keys) ==
    IF Len(keys) = 0 THEN <<>>
    ELSE LET n == Len(keys)
             rest == sorted_order(SubSeq(keys, 1, n - 1))
             pos == Cardinality({ q \in 1..Len(rest) : keys[rest[q]] >= keys[n] })
         IN  SubSeq(rest, 1, pos) \o <<n>> \o SubSeq(rest, pos + 1, Len(rest))

sort_by_priority(list) ==
    LET order == sorted_order([p \in 1..Len(list) |-> list[p].priority_score])
    IN  [p \in 1..Len(list) |-> list[order[p]]]

(***************************************************************************)
(* Responses.                                                              *)
(***************************************************************************)
\* status, success: the HTTP status and the 'success' flag
\* tasks:           the task list of the body (one task for /api/next-task)
\* reasons:         'reasons' of /api/next-task; the 'focus_reason' of each task of /api/today
\* notes:           'days_stale' resp. 'days_overdue' of each task; the health counts of /api/summary
\* high..low:       the priority distribution counts
\* workload:        'workload_by_assignee'; unassigned: 'unassigned_tasks'
NoResponse ==
    [status |-> 0, success |-> FALSE, tasks |-> <<>>, reasons |-> <<>>, notes |-> <<>>,
     high |-> 0, medium |-> 0, low |-> 0, workload |-> <<>>, unassigned |-> <<>>]

Ok == [NoResponse EXCEPT !.status = 200, !.success = TRUE]

\* the `except Exception` branch of a handler
ServerError == [NoResponse EXCEPT !.status = 500]

NoRequest == [body |-> "unsent", task_id |-> ""]

\* lines 599-608 and 1057-1066: the body of /api/tasks
tasks_response(list) ==
    [Ok EXCEPT
        !.tasks = list,
        !.high = Cardinality({ p \in 1..Len(list) : list[p].priority_score > 750 }),
        !.medium = Cardinality({ p \in 1..Len(list) :
                    500 <= list[p].priority_score /\ list[p].priority_score <= 750 }),
        !.low = Cardinality({ p \in 1..Len(list) : list[p].priority_score < 500 })]

\* lines 1093-1114: the body of /api/next-task
next_task_response(list) ==
    LET top_task == list[1]
        breakdown == top_task.priority_breakdown
        reasons == (IF breakdown.urgency > 70 THEN <<"High urgency">> ELSE <<>>)
                \o (IF breakdown.strategic_value > 70 THEN <<"High strategic value">> ELSE <<>>)
                \o (IF breakdown.dependency_impact > 70 THEN <<"Blocking other tasks">> ELSE <<>>)
                \o (IF breakdown.staleness > 70 THEN <<"Stagnant task needs attention">> ELSE <<>>)
    IN  [Ok EXCEPT !.tasks = <<top_task>>, !.reasons = reasons]

(***************************************************************************)
(* The derived views.  Each handler filters the scored collection in a     *)
(* loop (`for task in tasks: if ...: found.append(task)`) and sorts what   *)
(* it found.                                                               *)
(***************************************************************************)
Closed == {"Done", "Completed"}

\* the q-th smallest of a set of positions
Nth(keep, q) == CHOOSE p \in keep : Cardinality({ r \in keep : r < p }) = q - 1

\* the elements at the positions `keep`, in list order
Pick(list, keep) == [q \in 1..Cardinality(keep) |-> list[Nth(keep, q)]]

\* list.sort(key=..., reverse=True) for the keys given by position
Arrange(list, keys) ==
    LET order == sorted_order(keys)
    IN  [p \in 1..Len(list) |-> list[order[p]]]

\* ', '.join(parts)
RECURSIVE join(_)
join(parts) ==
    IF Len(parts) = 0 THEN ""
    ELSE IF Len(parts) = 1 THEN parts[1]
    ELSE parts[1] \o ", " \o join(Tail(parts))

\* /api/blockers, lines 622-633
blockers(list) ==
    LET keep == { p \in 1..Len(list) :
                    LET labels == LowerLabels(list[p].labels)
                        desc == lower(list[p].description)
                        title == lower(list[p].title)
                    IN  \/ "blocker" \in labels
                        \/ In("blocker", desc)
                        \/ In("blocking", title)
                        \/ In("blocks", desc) }
    IN  sort_by_priority(Pick(list, keep))

\* variant: finished tasks are not left out
quick_wins_any_status(list) ==
    LET keep == { p \in 1..Len(list) : list[p].priority_breakdown.effort_vs_impact > 75 }
        found == Pick(list, keep)
    IN  Arrange(found, [p \in 1..Len(found) |-> found[p].priority_breakdown.effort_vs_impact])

\* /api/quick-wins, lines 659-668
quick_wins(list) ==
    LET keep == { p \in 1..Len(list) :
                    /\ list[p].priority_breakdown.effort_vs_impact > 75
                    /\ list[p].status \notin Closed }
        found == Pick(list, keep)
    IN  Arrange(found, [p \in 1..Len(found) |-> found[p].priority_breakdown.effort_vs_impact])

\* /api/stale-tasks, lines 694-711: the tasks and the days_stale put on each
\* (0 - 1 stands for 'Unknown')
stale_tasks(list) ==
    LET keep == { p \in 1..Len(list) :
                    /\ list[p].priority_breakdown.staleness > 70
                    /\ list[p].status \in {"In Progress", "In Review", "Testing"} }
        found == Pick(list, keep)
        keys == [p \in 1..Len(found) |-> found[p].priority_breakdown.staleness]
        days_stale == [p \in 1..Len(found) |->
                        LET last_activity == found[p].dateLastActivity
                        IN  IF last_activity.kind = "iso"
                            THEN (now - last_activity.at) \div Day
                            ELSE 0 - 1]
    IN  [tasks |-> Arrange(found, keys), notes |-> Arrange(days_stale, keys)]

\* /api/overdue, lines 768-784: the tasks and the days_overdue put on each
overdue_tasks(list) ==
    LET keep == { p \in 1..Len(list) :
                    /\ ~Missing(list[p].deadline)
                    /\ ~Unparseable(list[p].deadline)       \* except: pass
                    /\ list[p].deadline.at < now }
        found == Pick(list, keep)
        days_overdue == [p \in 1..Len(found) |-> (now - found[p].deadline.at) \div Day]
    IN  [tasks |-> Arrange(found, days_overdue), notes |-> Arrange(days_overdue, days_overdue)]

\* variant: a deadline that has passed counts as due soon
focus_reasons_past_due(task) ==
    LET priority == task.priority_score
        deadline == task.deadline
        effort_score == task.priority_breakdown.effort_vs_impact
        due_soon == /\ ~Missing(deadline)
                    /\ ~Unparseable(deadline)
                    /\ deadline.at - now < 48 * Hour
    IN  (IF priority > 750 THEN <<"High priority">> ELSE <<>>)
        \o (IF due_soon THEN <<"Due soon">> ELSE <<>>)
        \o (IF effort_score > 80 /\ priority > 500 THEN <<"Quick win">> ELSE <<>>)

\* /api/today, lines 894-910: the reasons collected for one task
focus_reasons(task) ==
    LET priority == task.priority_score
        deadline == task.deadline
        effort_score == task.priority_breakdown.effort_vs_impact
        due_soon == /\ ~Missing(deadline)
                    /\ ~Unparseable(deadline)               \* except: pass
                    /\ deadline.at - now < 48 * Hour
                    /\ deadline.at - now > 0
    IN  (IF priority > 750 THEN <<"High priority">> ELSE <<>>)
        \o (IF due_soon THEN <<"Due soon">> ELSE <<>>)
        \o (IF effort_score > 80 /\ priority > 500 THEN <<"Quick win">> ELSE <<>>)

\* variant: the list is cut before it is sorted
today_focus_cut_first(list) ==
    LET keep == { p \in 1..Len(list) :
                    list[p].status \notin Closed /\ Len(focus_reasons(list[p])) > 0 }
        every == Pick(list, keep)
        found == SubSeq(every, 1, Min(FocusLimit, Len(every)))
        keys == [p \in 1..Len(found) |-> found[p].priority_score]
        reasons == [p \in 1..Len(found) |-> join(focus_reasons(found[p]))]
    IN  [tasks |-> Arrange(found, keys), reasons |-> Arrange(reasons, keys)]

\* /api/today, lines 877-917: the tasks and the focus_reason put on each
today_focus(list) ==
    LET keep == { p \in 1..Len(list) :
                    list[p].status \notin Closed /\ Len(focus_reasons(list[p])) > 0 }
        found == Pick(list, keep)
        keys == [p \in 1..Len(found) |-> found[p].priority_score]
        reasons == [p \in 1..Len(found) |-> join(focus_reasons(found[p]))]
        limit == Min(FocusLimit, Len(found))
    IN  [tasks |-> SubSeq(Arrange(found, keys), 1, limit),
         reasons |-> SubSeq(Arrange(reasons, keys), 1, limit)]

RECURSIVE total(_)
total(numbers) == IF Len(numbers) = 0 THEN 0 ELSE Head(numbers) + total(Tail(numbers))

\* variant: finished tasks are counted as well
team_workload_with_closed(list) ==
    LET open == 1..Len(list)
        slots == UNION { { <<p, k>> : k \in 1..Len(list[p].assignee) } : p \in open }
        members == { list[sl[1]].assignee[sl[2]] : sl \in slots }
        mine(a) == { sl \in slots : list[sl[1]].assignee[sl[2]] = a }
    IN  [workload |-> [a \in members |->
                        [task_count |-> Cardinality(mine(a)),
                         high_priority_count |->
                            Cardinality({ sl \in mine(a) : list[sl[1]].priority_score > 750 }),
                         total_priority_score |->
                            total([p \in 1..Len(list) |->
                                    list[p].priority_score
                                    * Cardinality({ sl \in mine(a) : sl[1] = p })])]],
         unassigned |-> Pick(list, { p \in open : Len(list[p].assignee) = 0 })]

\* /api/team-workload, lines 943-973.  A slot <<p, k>> is one turn of the
\* inner loop: the k-th assignee of the open task at position p.
team_workload(list) ==
    LET open == { p \in 1..Len(list) : list[p].status \notin Closed }
        slots == UNION { { <<p, k>> : k \in 1..Len(list[p].assignee) } : p \in open }
        members == { list[sl[1]].assignee[sl[2]] : sl \in slots }
        mine(a) == { sl \in slots : list[sl[1]].assignee[sl[2]] = a }
    IN  [workload |-> [a \in members |->
                        [task_count |-> Cardinality(mine(a)),
                         high_priority_count |->
                            Cardinality({ sl \in mine(a) : list[sl[1]].priority_score > 750 }),
                         total_priority_score |->
                            total([p \in 1..Len(list) |->
                                    list[p].priority_score
                                    * Cardinality({ sl \in mine(a) : sl[1] = p })])]],
         unassigned |-> Pick(list, { p \in open : Len(list[p].assignee) = 0 })]

\* /api/summary, lines 1150-1185.  The overdue count parses every deadline
\* that is present, outside any try of its own: an unparseable one raises
\* into the handler's `except Exception`.
summary_response(list) ==
    IF \E p \in 1..Len(list) : ~Missing(list[p].deadline) /\ Unparseable(list[p].deadline)
    THEN ServerError
    ELSE LET overdue == Cardinality({ p \in 1..Len(list) :
                            ~Missing(list[p].deadline) /\ list[p].deadline.at < now })
             stale == Cardinality({ p \in 1..Len(list) :
                            list[p].priority_breakdown.staleness > 70 })
             blocked == Cardinality({ p \in 1..Len(list) :
                            \/ In("blocked", lower(list[p].description))
                            \/ In("waiting", lower(list[p].description)) })
             distribution == tasks_response(list)
         IN  [Ok EXCEPT
                !.high = distribution.high,
                !.medium = distribution.medium,
                !.low = distribution.low,
                !.notes = <<overdue, stale, blocked>>]

\* /api/analyze, lines 1213-1230, for a request that carries a task_id
analyze_response(list, task_id) ==
    LET found == { p \in 1..Len(list) : list[p].id = task_id }
    IN  IF found = {} THEN [NoResponse EXCEPT !.status = 404]
        ELSE [Ok EXCEPT !.tasks = <<list[Nth(found, 1)]>>]

(***************************************************************************)
(* The state machine: one request at a time, from the fetch to the         *)
(* response.                                                               *)
(***************************************************************************)
Endpoints == {"tasks", "next-task"}

Init ==
    /\ cards \in Snapshots(UrgencyCards, 1) \cup Snapshots(StrategicCards, 1)
                 \cup Snapshots(EffortCards, 1) \cup Snapshots(ActivityCards, 1)
                 \cup Snapshots(DependencyCards, MaxDepTasks)
                 \cup Snapshots(MixedCards, MaxTasks)
                 \cup Snapshots(UntitledCards, MaxUntitledTasks)
                 \cup FocusSnapshots \cup {<<>>}
    /\ tasks = <<>>
    /\ pc = "idle"
    /\ idx = 0
    /\ pass = 0
    /\ first = <<>>
    /\ unsorted = <<>>
    /\ endpoint = "none"
    /\ now = 0
    /\ response = NoResponse
    /\ request = NoRequest

\* Every handler opens with the same steps: fetch the cards, normalize them,
\* score them.  They are taken once; the handlers part ways after the loop.
StartRequest ==
    /\ pc = "idle"
    /\ tasks' = normalize_tasks(cards)
    /\ pc' = IF Len(cards) = 0 THEN "scored" ELSE "scoring"
    /\ idx' = 1
    /\ pass' = 1
    /\ UNCHANGED <<cards, first, unsorted, endpoint, now, response, request>>

\* one iteration of `for task in tasks: task['priority_score'] = calculate_priority_score(task, tasks)`
ScoreTask ==
    /\ pc = "scoring"
    /\ idx <= Len(tasks)
    /\ LET result == calculate_priority_score(tasks[idx], tasks)
       IN  tasks' = [tasks EXCEPT ![idx] =
                        [@ EXCEPT !.priority_breakdown = result.priority_breakdown,
                                  !.priority_score = result.priority_score]]
    /\ idx' = idx + 1
    /\ pc' = IF idx = Len(tasks) THEN "scored" ELSE "scoring"
    /\ UNCHANGED <<cards, pass, first, unsorted, endpoint, now, response, request>>

\* the scoring loop is run once more over the scored collection
Rescore ==
    /\ pc = "scored"
    /\ pass = 1
    /\ Len(tasks) > 0
    /\ first' = tasks
    /\ pass' = 2
    /\ idx' = 1
    /\ pc' = "scoring"
    /\ UNCHANGED <<cards, tasks, unsorted, endpoint, now, response, request>>

\* /api/tasks and /api/next-task go on with
\* tasks.sort(key=lambda x: x['priority_score'], reverse=True)
Rank(ep) ==
    /\ pc = "scored"
    /\ Len(tasks) > 0
    /\ endpoint' = ep
    /\ tasks' = sort_by_priority(tasks)
    /\ unsorted' = tasks
    /\ pc' = "ranked"
    /\ UNCHANGED <<cards, idx, pass, first, now, response, request>>

Respond ==
    /\ pc = "ranked"
    /\ response' = IF endpoint = "tasks" THEN tasks_response(tasks)
                   ELSE next_task_response(tasks)
    /\ pc' = "done"
    /\ UNCHANGED <<cards, tasks, idx, pass, first, unsorted, endpoint, now, request>>

\* The handlers that test `if not cards:` / `if not tasks:` before the scoring
\* loop answer an empty fetch at once; only /api/tasks reports it as a failure.
EarlyEndpoints == {"tasks", "next-task", "summary", "today", "recommendations", "risk"}

EarlyReturn(ep) ==
    /\ pc = "idle"
    /\ Len(cards) = 0
    /\ endpoint' = ep
    /\ response' = IF ep = "tasks" THEN [NoResponse EXCEPT !.status = 200] ELSE Ok
    /\ pc' = "done"
    /\ UNCHANGED <<cards, tasks, idx, pass, first, unsorted, now, request>>

\* the rest of a handler that answers in one step after the scoring loop
Reply(ep, body) ==
    /\ pc = "scored"
    /\ endpoint' = ep
    /\ response' = body
    /\ pc' = "done"
    /\ UNCHANGED <<cards, tasks, idx, pass, first, unsorted, now, request>>

Blockers == Reply("blockers", [Ok EXCEPT !.tasks = blockers(tasks)])

QuickWins == Reply("quick-wins", [Ok EXCEPT !.tasks = quick_wins(tasks)])

StaleTasks ==
    LET found == stale_tasks(tasks)
    IN  Reply("stale-tasks", [Ok EXCEPT !.tasks = found.tasks, !.notes = found.notes])

Overdue ==
    LET found == overdue_tasks(tasks)
    IN  Reply("overdue", [Ok EXCEPT !.tasks = found.tasks, !.notes = found.notes])

Today ==
    /\ Len(tasks) > 0
    /\ LET found == today_focus(tasks)
       IN  Reply("today", [Ok EXCEPT !.tasks = found.tasks, !.reasons = found.reasons])

TeamWorkload ==
    LET found == team_workload(tasks)
    IN  Reply("team-workload",
              [Ok EXCEPT !.workload = found.workload, !.unassigned = found.unassigned])

Summary ==
    /\ Len(tasks) > 0
    /\ Reply("summary", summary_response(tasks))

\* /api/recommendations and /api/risk hand the scored collection to the
\* language model; get_ai_recommendations and predict_project_risk catch
\* whatever is raised inside them and return a text either way.
Advice(ep) ==
    /\ Len(tasks) > 0
    /\ Reply(ep, Ok)

\* POST /api/analyze, lines 1196-1203.  request.json of a request without a
\* JSON body is None or raises, data.get then raises or is not reached:
\* both ways end in the handler's `except Exception`.  A body without a
\* task_id, or with an empty one, is turned away before the fetch.
AnalyzeReject(body) ==
    /\ pc = "idle"
    /\ request' = [body |-> body, task_id |-> ""]
    /\ endpoint' = "analyze"
    /\ response' = IF body = "none" THEN ServerError ELSE [NoResponse EXCEPT !.status = 400]
    /\ pc' = "done"
    /\ UNCHANGED <<cards, tasks, idx, pass, first, unsorted, now>>

\* POST /api/analyze with a task_id, lines 1205-1230 (the request is the
\* same throughout the handler; it is drawn here, where it is first used)
Analyze(task_id) ==
    /\ pc = "scored"
    /\ request' = [body |-> "task_id", task_id |-> task_id]
    /\ endpoint' = "analyze"
    /\ response' = analyze_response(tasks, task_id)
    /\ pc' = "done"
    /\ UNCHANGED <<cards, tasks, idx, pass, first, unsorted, now>>

(***************************************************************************)
(* The scoring loop with its turns taken in any order.  The tasks of a     *)
(* collection are scored one at a time, each turn being one call of        *)
(* calculate_priority_score on the collection as the turns before left it. *)
(***************************************************************************)
InitAnyOrder ==
    /\ cards \in Snapshots(DependencyCards, MaxOrderTasks) \cup Snapshots(MixedCards, MaxTasks)
    /\ tasks = <<>>
    /\ pc = "idle"
    /\ idx = 0
    /\ pass = 0
    /\ first = <<>>
    /\ unsorted = <<>>
    /\ endpoint = "none"
    /\ now = 0
    /\ response = NoResponse
    /\ request = NoRequest

\* the turn of the task at position p, which has not had its turn yet
ScoreAny(p) ==
    /\ pc = "scoring"
    /\ tasks[p].priority_score < 0
    /\ LET result == calculate_priority_score(tasks[p], tasks)
       IN  tasks' = [tasks EXCEPT ![p] =
                        [@ EXCEPT !.priority_breakdown = result.priority_breakdown,
                                  !.priority_score = result.priority_score]]
    /\ idx' = p
    /\ pc' = IF \A q \in 1..Len(tasks) : q = p \/ tasks[q].priority_score >= 0
             THEN "scored" ELSE "scoring"
    /\ UNCHANGED <<cards, pass, first, unsorted, endpoint, now, response, request>>

NextAnyOrder ==
    \/ StartRequest
    \/ \E p \in 1..Len(tasks) : ScoreAny(p)

SpecAnyOrder == InitAnyOrder /\ [][NextAnyOrder]_vars

\* the collection after the first n turns of `for task in tasks:` in list order
RECURSIVE scored_in_order(_, _)
scored_in_order(list, n) ==
    IF n = 0 THEN list
    ELSE LET before == scored_in_order(list, n - 1)
             result == calculate_priority_score(before[n], before)
         IN  [before EXCEPT ![n] =
                [@ EXCEPT !.priority_breakdown = result.priority_breakdown,
                          !.priority_score = result.priority_score]]

(***************************************************************************)
(* The aggregation of calculate_priority_score over every combination of   *)
(* values its six calculators return.  The sets list the values of the     *)
(* calculators' return statements.                                         *)
(***************************************************************************)
UrgencyValues == {15, 25, 100, 95, 90, 85, 75, 60, 45, 30, 20}
StrategicValues == {95, 80, 75, 70, 85, 25, 50}
\* 20, +50 for blocker language, +min(20 * count, 40), -30 for blocked-by
\* language, clamped to [0, 100]
DependencyValues ==
    { Min(Max(20 + own + referenced - waiting, 0), 100) :
        own \in {0, 50}, referenced \in {0, 20, 40}, waiting \in {0, 30} }
EffortValues == {90, 35, 30, 45, 65, 40, 55, 70, 75, 60}
StalenessValues == {20, 50, 40, 95, 85, 70, 25}
EngagementValues == {80, 65, 50, 40, 30}

\* line 414: round(min(100, max(0, priority_score)), 1)
clamped_score(b) == round1(Min(10000, Max(0, weighted_sum(b))))

InitFactors ==
    /\ cards = <<[id |-> CardIds[1]] @@ Plain>>
    /\ tasks = <<>>
    /\ pc = "idle"
    /\ idx = 0
    /\ pass = 0
    /\ first = <<>>
    /\ unsorted = <<>>
    /\ endpoint = "none"
    /\ now = 0
    /\ response = NoResponse
    /\ request = NoRequest

\* lines 387-414 for a task whose calculators returned the values of b
ScoreFactors(b) ==
    /\ pc = "idle"
    /\ tasks' = <<[normalize_task(cards[1]) EXCEPT
                     !.priority_breakdown = b,
                     !.priority_score = clamped_score(b)]>>
    /\ pc' = "scored"
    /\ UNCHANGED <<cards, idx, pass, first, unsorted, endpoint, now, response, request>>

\* one call, with any of the combinations
NextFactors ==
    /\ pc = "idle"
    /\ \E u \in UrgencyValues, s \in StrategicValues, d \in DependencyValues,
          e \in EffortValues, st \in StalenessValues, en \in EngagementValues :
           ScoreFactors([urgency |-> u, strategic_value |-> s, dependency_impact |-> d,
                         effort_vs_impact |-> e, staleness |-> st, engagement |-> en])

SpecFactors == InitFactors /\ [][NextFactors]_vars

Next ==
    \/ StartRequest
    \/ ScoreTask
    \/ Rescore
    \/ \E ep \in Endpoints : Rank(ep)
    \/ Respond
    \/ \E ep \in EarlyEndpoints : EarlyReturn(ep)
    \/ Blockers
    \/ QuickWins
    \/ StaleTasks
    \/ Overdue
    \/ Today
    \/ TeamWorkload
    \/ Summary
    \/ \E ep \in {"recommendations", "risk"} : Advice(ep)
    \/ \E body \in {"none", "no_task_id", "empty_task_id"} : AnalyzeReject(body)
    \/ \E task_id \in {CardIds[1], "5f1cff"} : Analyze(task_id)

Spec == Init /\ [][Next]_vars

(***************************************************************************)
(* Properties.                                                             *)
(***************************************************************************)
\* the scoring loop has just run over the whole collection
Scored == pc = "scored"

Positions == 1..Len(tasks)

InRange(v) == 0 <= v /\ v <= 100

\* C1: once every task of the collection is scored, every priority score is
\* in [0, 100] (0..1000 tenths) and each of the six breakdown values is in
\* [0, 100].
C1_ScoresInRange ==
    Scored =>
        \A p \in Positions :
            /\ 0 <= tasks[p].priority_score /\ tasks[p].priority_score <= 1000
            /\ InRange(tasks[p].priority_breakdown.urgency)
            /\ InRange(tasks[p].priority_breakdown.strategic_value)
            /\ InRange(tasks[p].priority_breakdown.dependency_impact)
            /\ InRange(tasks[p].priority_breakdown.effort_vs_impact)
            /\ InRange(tasks[p].priority_breakdown.staleness)
            /\ InRange(tasks[p].priority_breakdown.engagement)

\* a scored collection in which the dependency factor sits on both ends of
\* its range
C1_Witness ==
    /\ pc = "scored"
    /\ \E p \in Positions : tasks[p].priority_breakdown.dependency_impact = 100
    /\ \E p \in Positions : tasks[p].priority_breakdown.dependency_impact = 0

\* the tenth nearest to a value given in hundredths, a tie going to the even tenth
NearestTenth(h, t) ==
    /\ 10 * t - 5 <= h /\ h <= 10 * t + 5
    /\ (h = 10 * t - 5 \/ h = 10 * t + 5) => t % 2 = 0

\* the inputs of the calculators other than the assignees and the id
SameButAssignees(t, u) ==
    /\ t.title = u.title /\ t.description = u.description /\ t.status = u.status
    /\ t.deadline = u.deadline /\ t.labels = u.labels
    /\ t.dateLastActivity = u.dateLastActivity
    /\ t.total_checklist_items = u.total_checklist_items
    /\ t.comment_count = u.comment_count /\ t.activity_count = u.activity_count

\* C2: every task's priority score is the weighted sum 0.30 urgency + 0.25
\* strategic + 0.20 dependency + 0.10 effort + 0.10 staleness + 0.05
\* engagement of the six values stored in its breakdown, rounded to one
\* decimal and clamped to [0, 100]; the assignees contribute nothing: two
\* tasks that differ only in their assignees (and are referenced alike by the
\* rest of the collection) have the same score.
C2_WeightedFormula ==
    Scored =>
        /\ \A p \in Positions :
              LET b == tasks[p].priority_breakdown
                  h == 30 * b.urgency + 25 * b.strategic_value + 20 * b.dependency_impact
                       + 10 * b.effort_vs_impact + 10 * b.staleness + 5 * b.engagement
              IN  /\ NearestTenth(h, tasks[p].priority_score)
                  /\ 0 <= tasks[p].priority_score /\ tasks[p].priority_score <= 1000
        /\ \A p, q \in Positions :
              (/\ SameButAssignees(tasks[p], tasks[q])
               /\ tasks[p].priority_breakdown.dependency_impact
                    = tasks[q].priority_breakdown.dependency_impact)
              => tasks[p].priority_score = tasks[q].priority_score

\* two scored tasks that differ in the number of assignees only
C2_Witness ==
    /\ pc = "scored"
    /\ \E p, q \in Positions :
          /\ SameButAssignees(tasks[p], tasks[q])
          /\ Len(tasks[p].assignee) = 0 /\ Len(tasks[q].assignee) = 1
          /\ tasks[p].priority_score = tasks[q].priority_score
          /\ tasks[p].priority_score > 0

\* the urgency table as the claim words it, d = minutes from now to the deadline
UrgencyTable(d) ==
    IF d < 0
    THEN IF 0 - d <= 3 * Day THEN 90
         ELSE IF 0 - d <= 7 * Day THEN 95
         ELSE 100
    ELSE IF d < 6 * Hour THEN 95
    ELSE IF d < 24 * Hour THEN 85
    ELSE IF d <= 2 * Day THEN 75
    ELSE IF d <= 4 * Day THEN 60
    ELSE IF d <= 7 * Day THEN 45
    ELSE IF d <= 14 * Day THEN 30
    ELSE 20

\* C3: for a parseable deadline at offset d from now the urgency is the first
\* match of: overdue -> 90 (at most 3 days), 95 (more than 3, at most 7), 100
\* (more than 7); under 6 hours 95; under 24 hours 85; at most 2 days 75; at
\* most 4 days 60; at most 7 days 45; at most 14 days 30; otherwise 20.  No
\* deadline gives 15.  3 hours ahead gives 95, 10 days in the past gives 100.
C3_UrgencyWindows ==
    Scored =>
        \A p \in Positions :
            LET t == tasks[p]
            IN  /\ t.deadline.kind = "none" => t.priority_breakdown.urgency = 15
                /\ t.deadline.kind = "iso" =>
                      t.priority_breakdown.urgency = UrgencyTable(t.deadline.at - now)
                /\ (t.deadline.kind = "iso" /\ t.deadline.at - now = 3 * Hour) =>
                      t.priority_breakdown.urgency = 95
                /\ (t.deadline.kind = "iso" /\ t.deadline.at - now = 0 - 10 * Day) =>
                      t.priority_breakdown.urgency = 100

\* one task due in 3 hours and one 10 days overdue, both scored
C3_Witness ==
    /\ pc = "scored"
    /\ \E p, q \in Positions :
          /\ tasks[p].deadline = At(now + 3 * Hour)
          /\ tasks[p].priority_breakdown.urgency = 95
          /\ tasks[q].deadline = At(now - 10 * Day)
          /\ tasks[q].priority_breakdown.urgency = 100

\* C4 as stated: a deadline exactly 10 days in the future yields urgency 20.
C4_TenDaysYields20 ==
    Scored =>
        \A p \in Positions :
            (tasks[p].deadline.kind = "iso" /\ tasks[p].deadline.at - now = 10 * Day)
            => tasks[p].priority_breakdown.urgency = 20

\* C4 amended: a deadline exactly 10 days in the future yields urgency 30
\* (it lies in the "at most 14 days" window; 20 is for deadlines more than 14
\* days ahead).
C4_TenDaysYields30 ==
    Scored =>
        \A p \in Positions :
            /\ (tasks[p].deadline.kind = "iso" /\ tasks[p].deadline.at - now = 10 * Day)
               => tasks[p].priority_breakdown.urgency = 30
            /\ (tasks[p].deadline.kind = "iso" /\ tasks[p].deadline.at - now > 14 * Day)
               => tasks[p].priority_breakdown.urgency = 20

\* a scored task whose deadline is exactly 10 days ahead
C4_Witness ==
    /\ pc = "scored"
    /\ \E p \in Positions :
          /\ tasks[p].deadline = At(now + 10 * Day)
          /\ tasks[p].priority_breakdown.urgency >= 0

HasLabelIn(t, names) == \E k \in 1..Len(t.labels) : lower(t.labels[k]) \in names
HasKeywordIn(t, keywords) ==
    \E k \in keywords : In(k, lower(t.title)) \/ In(k, lower(t.description))

\* C5: a task with no label of rules 1-2 whose title or description contains a
\* security keyword has strategic value 85, also when a bug keyword or a
\* business keyword is present as well.
C5_SecurityBeforeBug ==
    Scored =>
        \A p \in Positions :
            (/\ ~HasLabelIn(tasks[p], CriticalLabels \cup HighLabels)
             /\ HasKeywordIn(tasks[p], {"security", "vulnerability", "compliance", "audit"}))
            => tasks[p].priority_breakdown.strategic_value = 85

\* C6: a task carrying a label in {critical, blocker, emergency, urgent}, in
\* any letter case, has strategic value 95 whatever its other labels, title
\* and description are; labeled both "critical" and "low" it has 95, not 25.
C6_CriticalLabelFirst ==
    Scored =>
        \A p \in Positions :
            HasLabelIn(tasks[p], {"critical", "blocker", "emergency", "urgent"})
            => tasks[p].priority_breakdown.strategic_value = 95

\* a scored task labeled "critical" and "low" whose text also holds keywords
C6_Witness ==
    /\ pc = "scored"
    /\ \E p \in Positions :
          /\ tasks[p].labels = <<"critical", "low">>
          /\ HasKeywordIn(tasks[p], BugKeywords)
          /\ tasks[p].priority_breakdown.strategic_value = 95

\* the claim's k: the other tasks of the collection whose description holds
\* this task's id or whose description or title holds the first 20 characters
\* of this task's title (texts compared without regard to letter case)
ReferencedBy(p) ==
    { q \in Positions \ {p} :
        \/ In(tasks[p].id, lower(tasks[q].description))
        \/ In(Prefix(lower(tasks[p].title), 20), lower(tasks[q].description))
        \/ In(Prefix(lower(tasks[p].title), 20), lower(tasks[q].title)) }

NoBlockerLanguage(t) ==
    \A w \in {"blocker", "blocking", "blocks"} :
        ~In(w, lower(t.title)) /\ ~In(w, lower(t.description))
NoBlockedByLanguage(t) ==
    \A w \in {"blocked by", "waiting for", "depends on"} :
        ~In(w, lower(t.title)) /\ ~In(w, lower(t.description))

\* C7: a task with no blocker language and no blocked-by language has
\* dependency score 20 + min(20 k, 40), k being the number of other tasks
\* that reference it: 20, 40, 60 for k = 0, 1, 2 and 60 for every k > 2.
C7_DependencyReferences ==
    Scored =>
        \A p \in Positions :
            (NoBlockerLanguage(tasks[p]) /\ NoBlockedByLanguage(tasks[p])) =>
                LET k == Cardinality(ReferencedBy(p))
                IN  tasks[p].priority_breakdown.dependency_impact
                      = (IF k = 0 THEN 20 ELSE IF k = 1 THEN 40 ELSE 60)

\* a scored task that three other tasks reference
C7_Witness ==
    /\ pc = "scored"
    /\ \E p \in Positions :
          /\ NoBlockerLanguage(tasks[p]) /\ NoBlockedByLanguage(tasks[p])
          /\ Cardinality(ReferencedBy(p)) > 2
          /\ tasks[p].priority_breakdown.dependency_impact = 60

\* C8: a task whose title or description contains a quick-win keyword has
\* effort score 90 for every checklist size and description length, and also
\* when a complex-project keyword is present.
C8_QuickWinFirst ==
    Scored =>
        \A p \in Positions :
            HasKeywordIn(tasks[p], {"typo", "rename", "update text", "copy change", "wording",
                                    "small fix", "quick", "simple", "minor"})
            => tasks[p].priority_breakdown.effort_vs_impact = 90

\* "Fix typo in header" with a checklist of 11 items and a description of
\* more than 1000 characters, scored 90
C8_Witness ==
    /\ pc = "scored"
    /\ \E p \in Positions :
          /\ tasks[p].title = "Fix typo in header"
          /\ tasks[p].total_checklist_items > 10
          /\ Len(tasks[p].description) > 1000
          /\ tasks[p].priority_breakdown.effort_vs_impact = 90

\* C9: a second scoring run over the scored, otherwise unchanged collection
\* at the same clock value leaves every task with the priority score and the
\* breakdown of the first run.
C9_RescoreIdempotent ==
    (Scored /\ pass = 2) =>
        /\ Len(tasks) = Len(first)
        /\ \A p \in Positions :
              \E q \in 1..Len(first) :
                  /\ first[q].id = tasks[p].id
                  /\ first[q].priority_score = tasks[p].priority_score
                  /\ first[q].priority_breakdown = tasks[p].priority_breakdown

\* a collection of several tasks at the end of its second scoring run
C9_Witness ==
    /\ pc = "scored"
    /\ pass = 2
    /\ Len(tasks) > 1
    /\ \A p \in Positions : first[p].priority_score > 0

Ranked == pc = "ranked" \/ (pc = "done" /\ endpoint \in Endpoints)

PositionIn(list, id) == CHOOSE p \in 1..Len(list) : list[p].id = id

\* C10: the ranked list is a stable descending sort of the scored collection:
\* scores are non-increasing, the list is a permutation of the collection as
\* it was before the sort, and tasks with equal scores keep the relative order
\* they had before the sort.
C10_StableDescendingRank ==
    Ranked =>
        /\ \A p, q \in Positions : p < q => tasks[p].priority_score >= tasks[q].priority_score
        /\ Len(tasks) = Len(unsorted)
        /\ \A u \in 1..Len(unsorted) :
              Cardinality({ p \in Positions : tasks[p] = unsorted[u] }) = 1
        /\ \A p, q \in Positions :
              (p < q /\ tasks[p].priority_score = tasks[q].priority_score)
              => PositionIn(unsorted, tasks[p].id) < PositionIn(unsorted, tasks[q].id)

\* a ranking that moved tasks and kept two equal-scored tasks in order
C10_Witness ==
    /\ pc = "ranked"
    /\ tasks # unsorted
    /\ \E p, q \in Positions : p < q /\ tasks[p].priority_score = tasks[q].priority_score

Answered(ep) == pc = "done" /\ endpoint = ep

Listed == 1..Len(response.tasks)

\* C11: the quick-wins view holds no finished task and only tasks of effort
\* above 75; the stale view holds only tasks in progress, in review or in
\* testing, of staleness above 70.
C11_QuickWinsAndStaleMembers ==
    /\ Answered("quick-wins") =>
          \A p \in Listed :
              /\ response.tasks[p].status \notin {"Done", "Completed"}
              /\ response.tasks[p].priority_breakdown.effort_vs_impact > 75
    /\ Answered("stale-tasks") =>
          \A p \in Listed :
              /\ response.tasks[p].status \in {"In Progress", "In Review", "Testing"}
              /\ response.tasks[p].priority_breakdown.staleness > 70

\* a quick-wins answer that lists a task and leaves out a finished task of
\* effort above 75
C11_Witness ==
    /\ Answered("quick-wins")
    /\ Len(response.tasks) > 0
    /\ \E p \in Positions :
          tasks[p].status = "Done" /\ tasks[p].priority_breakdown.effort_vs_impact > 75

\* the three criteria of the today's-focus view, as the claims state them
HighPriority(task) == task.priority_score > 750
DueSoon(task) ==
    /\ task.deadline.kind = "iso"
    /\ task.deadline.at > now
    /\ task.deadline.at < now + 48 * Hour
QuickWin(task) == task.priority_breakdown.effort_vs_impact > 80 /\ task.priority_score > 500
Qualifies(task) ==
    /\ task.status \notin {"Done", "Completed"}
    /\ HighPriority(task) \/ DueSoon(task) \/ QuickWin(task)

Qualifying == { p \in Positions : Qualifies(tasks[p]) }
LeftOut == { p \in Qualifying : \A q \in Listed : response.tasks[q].id # tasks[p].id }

\* C12: the today's-focus view returns at most 10 tasks, in non-increasing
\* priorityScore order, and no qualifying task that was left out has a score
\* strictly greater than a task that was returned.
C12_TodayTopTen ==
    Answered("today") =>
        /\ Len(response.tasks) <= 10
        /\ \A p, q \in Listed :
              p < q => response.tasks[p].priority_score >= response.tasks[q].priority_score
        /\ \A p \in LeftOut : \A q \in Listed :
              tasks[p].priority_score <= response.tasks[q].priority_score

\* more than 10 tasks qualify, of different scores, and one that scores less
\* than a returned task is left out
C12_Witness ==
    /\ Answered("today")
    /\ Cardinality(Qualifying) > 10
    /\ Len(response.tasks) = 10
    /\ \E p \in LeftOut : \E q \in Listed :
          tasks[p].priority_score < response.tasks[q].priority_score

RECURSIVE SumOver(_, _)
SumOver(f, S) ==
    IF S = {} THEN 0
    ELSE LET x == CHOOSE y \in S : TRUE
         IN  f[x] + SumOver(f, S \ {x})

\* C13: in the team-workload view the task counts of all assignees plus the
\* unassigned count equal the sum, over the tasks that are not Done/Completed,
\* of max(1, number of assignees): an open task is counted once under each of
\* its assignees, or once as unassigned, and a finished task nowhere.
C13_WorkloadCounts ==
    Answered("team-workload") =>
        LET members == DOMAIN response.workload
            open == { p \in Positions : tasks[p].status \notin {"Done", "Completed"} }
            counted == SumOver([a \in members |-> response.workload[a].task_count], members)
            unassigned_count == Len(response.unassigned)
        IN  /\ counted + unassigned_count
                 = SumOver([p \in open |-> Max(1, Len(tasks[p].assignee))], open)
            /\ \A a \in members :
                  response.workload[a].task_count
                      = Cardinality({ p \in open :
                            \E k \in 1..Len(tasks[p].assignee) : tasks[p].assignee[k] = a })
            /\ unassigned_count = Cardinality({ p \in open : Len(tasks[p].assignee) = 0 })
            /\ \A p \in 1..unassigned_count :
                  response.unassigned[p].status \notin {"Done", "Completed"}

\* a workload answer over an open task of two assignees and a finished task
\* that has assignees
C13_Witness ==
    /\ Answered("team-workload")
    /\ \E p, q \in Positions :
          /\ tasks[p].status # "Done" /\ Len(tasks[p].assignee) = 2
          /\ tasks[q].status = "Done" /\ Len(tasks[q].assignee) > 0
    /\ SumOver([a \in DOMAIN response.workload |-> response.workload[a].task_count],
               DOMAIN response.workload) = 2

TaskEndpoints ==
    {"tasks", "next-task", "summary", "blockers", "quick-wins", "stale-tasks", "overdue",
     "today", "team-workload", "recommendations", "risk"}

\* C14: when the board fetch fails, so that get_trello_cards returns the
\* empty list, every task-serving endpoint answers with success:false (and
\* none raises).
C14_FetchFailureSurfaced ==
    (pc = "done" /\ Len(cards) = 0 /\ endpoint \in TaskEndpoints) =>
        /\ response.success = FALSE
        /\ response.status # 500

Malformed ==
    \E p \in 1..Len(cards) : Unparseable(cards[p].due) \/ Unparseable(cards[p].dateLastActivity)

\* C15: a malformed timestamp on a task never aborts the batch: the task gets
\* the fallback factor (urgency 25 for an unparseable deadline, staleness 40
\* for an unparseable lastActivity of a task in progress), and every endpoint
\* that processes the collection, /api/summary and /api/overdue included,
\* still answers with its normal success response.
C15_MalformedTimestampTolerated ==
    /\ Scored =>
          \A p \in Positions :
              /\ Unparseable(tasks[p].deadline) => tasks[p].priority_breakdown.urgency = 25
              /\ (Unparseable(tasks[p].dateLastActivity) /\ tasks[p].status \in InProgressStatuses)
                    => tasks[p].priority_breakdown.staleness = 40
    /\ (pc = "done" /\ Malformed /\ endpoint \in TaskEndpoints) =>
          response.success /\ response.status = 200

\* C16: POST /api/analyze without the required task_id (no body, a body
\* without task_id, an empty task_id) is rejected with a 400 and
\* success:false before any fetch or scoring; a task_id that matches no task
\* gives 404, and only a matching task_id gives an analysis.
C16_AnalyzeValidation ==
    Answered("analyze") =>
        LET matching == \E p \in Positions : tasks[p].id = request.task_id
        IN  /\ request.body \in {"none", "no_task_id", "empty_task_id"} =>
                  /\ response.status = 400
                  /\ response.success = FALSE
                  /\ tasks = <<>> /\ pass = 0
            /\ (request.body = "task_id" /\ ~matching) =>
                  response.status = 404 /\ response.success = FALSE
            /\ (response.status = 200 /\ response.success) <=>
                  (request.body = "task_id" /\ matching)

\* C17: scoring has no ordering hazard: for a fixed snapshot and a fixed
\* "now", whatever the order in which the tasks are scored, every task ends
\* with the priorityScore and priorityBreakdown that scoring in list order
\* gives it.
C17_OrderIndependent ==
    Scored => tasks = scored_in_order(normalize_tasks(cards), Len(cards))

\* a collection of three or more tasks whose first task, mentioned by
\* another task, was scored last
C17_Witness ==
    /\ Scored
    /\ Len(tasks) > 2
    /\ idx = 1
    /\ \E p \in 2..Len(tasks) : In(tasks[1].id, lower(tasks[p].description))
    /\ tasks[1].priority_breakdown.dependency_impact > 20

BlockerWords == {"blocker", "blocking", "blocks"}

SaysBlocker(task) == AnyKeyword(BlockerWords, lower(task.title), lower(task.description))

\* C18: calculate_dependency_score adds 50 whenever the task's title or
\* description contains "blocker", "blocking" or "blocks", each word being
\* looked for in both fields, and /api/blockers uses the same detector: a task
\* without a "blocker" label is listed exactly when one of the words occurs in
\* its title or its description.
C18_BlockerWordsBothFields ==
    /\ Scored =>
          \A p \in Positions :
              LET desc == lower(tasks[p].description)
                  base == 20 + (IF SaysBlocker(tasks[p]) THEN 50 ELSE 0)
                               + Min(blocked_count(tasks[p], tasks) * 20, 40)
                               - (IF In("blocked by", desc) \/ In("waiting for", desc)
                                     \/ In("depends on", desc) THEN 30 ELSE 0)
              IN  tasks[p].priority_breakdown.dependency_impact = Min(Max(base, 0), 100)
    /\ Answered("blockers") =>
          \A p \in Positions :
              "blocker" \notin LowerLabels(tasks[p].labels) =>
                  ((\E q \in Listed : response.tasks[q].id = tasks[p].id) <=> SaysBlocker(tasks[p]))

\* C19: /api/next-task returns element 0 of the ranked collection, a task of
\* maximal priorityScore, with one reason string for each of the six
\* breakdown factors above 70 and none for a factor at or below 70.
C19_ReasonPerHighFactor ==
    (Answered("next-task") /\ Len(cards) > 0) =>
        LET top_task == response.tasks[1]
            breakdown == top_task.priority_breakdown
        IN  /\ top_task = tasks[1]
            /\ \A p \in Positions : tasks[p].priority_score <= top_task.priority_score
            /\ Len(response.reasons)
                 = Cardinality({ factor \in DOMAIN breakdown : breakdown[factor] > 70 })

\* the focus_reason the claim gives a task
MatchedCriteria(task) ==
    LET h == HighPriority(task)
        d == DueSoon(task)
        q == QuickWin(task)
    IN  IF h /\ d /\ q THEN "High priority, Due soon, Quick win"
        ELSE IF h /\ d THEN "High priority, Due soon"
        ELSE IF h /\ q THEN "High priority, Quick win"
        ELSE IF d /\ q THEN "Due soon, Quick win"
        ELSE IF h THEN "High priority"
        ELSE IF d THEN "Due soon"
        ELSE IF q THEN "Quick win"
        ELSE ""

\* C20: every task of the today's-focus view is not Done/Completed and meets
\* at least one of: priorityScore > 75; deadline strictly in the future and
\* less than 48 hours away; effort > 80 and priorityScore > 50.  When at most
\* 10 tasks meet the condition all of them are returned, and each returned
\* task's focus_reason lists exactly the criteria it met, comma-joined in the
\* order High priority, Due soon, Quick win.
C20_TodayMembership ==
    (Answered("today") /\ Len(cards) > 0) =>
        /\ \A p \in Listed : Qualifies(response.tasks[p])
        /\ \A p \in Listed : \E q \in Positions : tasks[q] = response.tasks[p]
        /\ Cardinality(Qualifying) <= 10 => LeftOut = {}
        /\ Len(response.reasons) = Len(response.tasks)
        /\ \A p \in Listed : response.reasons[p] = MatchedCriteria(response.tasks[p])

\* a focus answer that lists a task for two criteria and leaves out a task
\* that meets none
C20_Witness ==
    /\ Answered("today")
    /\ \E p \in Listed : response.reasons[p] = "Due soon, Quick win"
    /\ \E p \in Positions : p \notin Qualifying /\ tasks[p].status # "Done"

\* C21: the derived views are built from the ranked collection, so two quick
\* wins of equal effort appear in descending priorityScore order; likewise
\* two stale tasks of equal staleness and two overdue tasks of equal
\* days_overdue.
C21_TiesInPriorityOrder ==
    /\ Answered("quick-wins") =>
          \A p, q \in Listed :
              (/\ p < q
               /\ response.tasks[p].priority_breakdown.effort_vs_impact
                    = response.tasks[q].priority_breakdown.effort_vs_impact)
              => response.tasks[p].priority_score >= response.tasks[q].priority_score
    /\ Answered("stale-tasks") =>
          \A p, q \in Listed :
              (/\ p < q
               /\ response.tasks[p].priority_breakdown.staleness
                    = response.tasks[q].priority_breakdown.staleness)
              => response.tasks[p].priority_score >= response.tasks[q].priority_score
    /\ Answered("overdue") =>
          \A p, q \in Listed :
              (p < q /\ response.notes[p] = response.notes[q])
              => response.tasks[p].priority_score >= response.tasks[q].priority_score

\* C22: the clamp of calculate_priority_score is never active: over every
\* combination of values the six calculators return, the raw weighted sum
\* lies between 17.25 and 96.25, so no priorityScore reaches 100 or falls
\* below 17.2, and the result is the rounded, unclamped sum.
C22_ClampNeverActive ==
    Scored =>
        \A p \in Positions :
            LET raw == weighted_sum(tasks[p].priority_breakdown)
            IN  /\ 1725 <= raw /\ raw <= 9625
                /\ tasks[p].priority_score = round1(raw)
                /\ 172 <= tasks[p].priority_score /\ tasks[p].priority_score < 1000

\* the lowest combination: raw sum 17.25, rounded to 17.2
C22_Witness ==
    /\ Scored
    /\ tasks[1].priority_breakdown =
          [urgency |-> 15, strategic_value |-> 25, dependency_impact |-> 0,
           effort_vs_impact |-> 30, staleness |-> 20, engagement |-> 30]
    /\ weighted_sum(tasks[1].priority_breakdown) = 1725
    /\ tasks[1].priority_score = 172

\* C23: a task with an empty title is counted as referenced by every other
\* task (its empty title prefix is a substring of every text), so with two or
\* more other tasks it gets the full +40 even though no task mentions it; a
\* task's reference counter is never smaller than the number of other tasks
\* whose title or description contains its title prefix, and a task never
\* counts itself.
C23_EmptyTitleReferenced ==
    Scored =>
        \A p \in Positions :
            LET desc == lower(tasks[p].description)
                title == lower(tasks[p].title)
                others == { q \in Positions : tasks[q].id # tasks[p].id }
                mentions == { q \in others :
                                \/ In(Prefix(title, 20), lower(tasks[q].description))
                                \/ In(Prefix(title, 20), lower(tasks[q].title)) }
                rest == 20 + (IF In("blocker", desc) \/ In("blocking", title)
                                 \/ In("blocks", desc) THEN 50 ELSE 0)
                           - (IF In("blocked by", desc) \/ In("waiting for", desc)
                                 \/ In("depends on", desc) THEN 30 ELSE 0)
                dependency == tasks[p].priority_breakdown.dependency_impact
            IN  /\ (tasks[p].title = "" /\ Cardinality(others) >= 2)
                      => dependency = Min(Max(rest + 40, 0), 100)
                /\ dependency >= Min(Max(rest + Min(20 * Cardinality(mentions), 40), 0), 100)
                /\ dependency <= Min(Max(rest + Min(20 * Cardinality(others), 40), 0), 100)

\* a task without a title, on a board with two other tasks that do not
\* mention its id, has dependency 20 + 40
C23_Witness ==
    /\ Scored
    /\ Len(tasks) = 3
    /\ \E p \in Positions :
          /\ tasks[p].title = ""
          /\ \A q \in Positions : ~In(tasks[p].id, lower(tasks[q].description))
          /\ tasks[p].priority_breakdown.dependency_impact = 60

====
